---- MODULE Spec2Model ----
(***************************************************************************)
(* Model of src/table.rs: the ordered Table (LinkedHashMap of key/value    *)
(* slots), the Item tagged union and its downcasting API.                  *)
(*                                                                         *)
(* Strings that are used as keys are sequences of one-character strings,   *)
(* so that key parsing (quotes stripped) and key ordering are computed.    *)
(* Option<T> is a sequence of length 0 (None) or 1 (Some).                 *)
(***************************************************************************)
EXTENDS Integers, Sequences, FiniteSets, TLC

VARIABLES root, handle, last, status

vars == <<root, handle, last, status>>

\* ---------------------------------------------------------------- bounds
\* most slots the modelled table is grown to (KeyStrings below parse to
\* three distinct keys, so three slots is also all they can create)
MaxSlots == 3

\* ------------------------------------------------------------ characters
DQ == "\""
SQ == "'"
SP == " "

BareChars == {"a", "b"}

CharCode(c) ==
    CASE c = SP -> 32
      [] c = DQ -> 34
      [] c = SQ -> 39
      [] c = "a" -> 97
      [] c = "b" -> 98

\* byte-wise lexicographic order of str / String (Ord for InternalString)
RECURSIVE StrLess(_, _)
StrLess(s, t) ==
    IF t = <<>> THEN FALSE
    ELSE IF s = <<>> THEN TRUE
    ELSE IF CharCode(Head(s)) < CharCode(Head(t)) THEN TRUE
    ELSE IF CharCode(Head(s)) > CharCode(Head(t)) THEN FALSE
    ELSE StrLess(Tail(s), Tail(t))

\* the key strings callers pass: bare a, bare b, "a", '"a"', and the two
\* strings `a b` and `"a` that are not key tokens
KeyStrings ==
    { <<"a">>, <<"b">>, <<DQ, "a", DQ>>, <<SQ, DQ, "a", DQ, SQ>>,
      <<"a", SP, "b">>, <<DQ, "a">> }

None == <<>>
Some(x) == <<x>>

\* ------------------------------------------------------------------ Key
Inner(s) == SubSeq(s, 2, Len(s) - 1)

IsBare(s) == Len(s) >= 1 /\ \A i \in 1..Len(s) : s[i] \in BareChars

IsQuotedWith(s, q) ==
    /\ Len(s) >= 2
    /\ s[1] = q
    /\ s[Len(s)] = q
    /\ \A i \in 2..(Len(s) - 1) : s[i] # q

\* key.parse::<Key>(): Some([raw, key]) for a key token, None otherwise
ParseKey(s) ==
    IF IsBare(s) THEN Some([raw |-> s, key |-> s])
    ELSE IF IsQuotedWith(s, DQ) \/ IsQuotedWith(s, SQ)
         THEN Some([raw |-> s, key |-> Inner(s)])
    ELSE None

\* formatted::key_repr
key_repr(raw) == [decor |-> [prefix |-> "", suffix |-> " "], raw_value |-> raw]

\* ----------------------------------------------------------------- Item
ItemNone == [tag |-> "None"]
ItemValue(v) == [tag |-> "Value", value |-> v]
ItemTable(t) == [tag |-> "Table", table |-> t]
ItemArrayOfTables(a) == [tag |-> "ArrayOfTables", tables |-> a]

Decor(p, s) == [prefix |-> p, suffix |-> s]

\* Table::with_decor / Table::new
with_decor(d) == [items |-> <<>>, decor |-> d, implicit |-> FALSE]
TableNew == with_decor(Decor("\n", ""))

TableKeyValue(key, value) == [key |-> key, value |-> value]

ValueKinds ==
    {"integer", "float", "bool", "str", "date_time", "array", "inline_table"}

\* formatted::decorated
decorated(kind, p, s) == [kind |-> kind, decor |-> Decor(p, s)]

\* pub fn value / table / array
value(kind) == ItemValue(decorated(kind, " ", ""))
table == ItemTable(TableNew)
array == ItemArrayOfTables(<<>>)

\* ------------------------------------------------------- Item downcasts
is_none(it) == it.tag = "None"
as_value(it) == IF it.tag = "Value" THEN Some(it.value) ELSE None
as_table(it) == IF it.tag = "Table" THEN Some(it.table) ELSE None
as_array_of_tables(it) ==
    IF it.tag = "ArrayOfTables" THEN Some(it.tables) ELSE None
is_value(it) == as_value(it) # None
is_table(it) == as_table(it) # None
is_array_of_tables(it) == as_array_of_tables(it) # None

\* Value::as_<kind>, reached by as_value().and_then(..): the payload when the value is of that kind
ValueAs(v, kind) == IF v.kind = kind THEN Some(v) ELSE None

ValueAsInteger(v) == ValueAs(v, "integer")
ValueAsFloat(v) == ValueAs(v, "float")
ValueAsBool(v) == ValueAs(v, "bool")
ValueAsStr(v) == ValueAs(v, "str")
ValueAsDateTime(v) == ValueAs(v, "date_time")
ValueAsArray(v) == ValueAs(v, "array")
ValueAsInlineTable(v) == ValueAs(v, "inline_table")

as_integer(it) == (IF as_value(it) = None THEN None
     ELSE ValueAsInteger(as_value(it)[1]))
is_integer(it) == as_integer(it) # None
as_float(it) == (IF as_value(it) = None THEN None
     ELSE ValueAsFloat(as_value(it)[1]))
is_float(it) == as_float(it) # None
as_bool(it) == (IF as_value(it) = None THEN None
     ELSE ValueAsBool(as_value(it)[1]))
is_bool(it) == as_bool(it) # None
as_str(it) == (IF as_value(it) = None THEN None
     ELSE ValueAsStr(as_value(it)[1]))
is_str(it) == as_str(it) # None
as_date_time(it) == (IF as_value(it) = None THEN None
     ELSE ValueAsDateTime(as_value(it)[1]))
is_date_time(it) == as_date_time(it) # None
\* flattened variant: an array of tables passes for an array
as_array_flat(it) ==
    IF it.tag = "ArrayOfTables" THEN Some(it.tables)
    ELSE (IF as_value(it) = None THEN None
     ELSE ValueAsArray(as_value(it)[1]))

as_array(it) == (IF as_value(it) = None THEN None
     ELSE ValueAsArray(as_value(it)[1]))
is_array(it) == as_array(it) # None
as_inline_table(it) == (IF as_value(it) = None THEN None
     ELSE ValueAsInlineTable(as_value(it)[1]))
is_inline_table(it) == as_inline_table(it) # None

\* last-write-wins variant
or_insert_overwrite(self, item) == IF is_none(item) THEN self ELSE item

\* Item::or_insert: the Item after the call (the returned handle is self)
or_insert(self, item) == IF is_none(self) THEN item ELSE self

\* ------------------------------------------- LinkedHashMap (items field)
\* items is a sequence of entries [k, kv] with pairwise distinct k
IndexOf(items, k) ==
    IF \E i \in 1..Len(items) : items[i].k = k
    THEN CHOOSE i \in 1..Len(items) : items[i].k = k
    ELSE 0

\* LinkedHashMap::get
MapGet(items, k) ==
    IF IndexOf(items, k) = 0 THEN None ELSE Some(items[IndexOf(items, k)].kv)

\* LinkedHashMap::remove: the entry is unlinked, the others keep their order
MapRemove(items, k) ==
    LET i == IndexOf(items, k)
    IN  IF i = 0 THEN items
        ELSE SubSeq(items, 1, i - 1) \o SubSeq(items, i + 1, Len(items))

\* variant that relinks an occupied entry at the back (get_refresh)
MapEntryOrInsertRefresh(items, k, kv) ==
    IF IndexOf(items, k) = 0 THEN Append(items, [k |-> k, kv |-> kv])
    ELSE Append(MapRemove(items, k), items[IndexOf(items, k)])

\* variant that links a new entry without looking the key up
MapEntryOrInsertAppend(items, k, kv) == Append(items, [k |-> k, kv |-> kv])

\* LinkedHashMap::entry(k).or_insert(kv): a vacant key is linked at the back
MapEntryOrInsert(items, k, kv) ==
    IF IndexOf(items, k) = 0 THEN Append(items, [k |-> k, kv |-> kv])
    ELSE items

\* ---------------------------------------------------------------- Table
contains_key(t, k) ==
    IF MapGet(t.items, k) # None THEN ~is_none(MapGet(t.items, k)[1].value)
    ELSE FALSE

contains_table(t, k) ==
    IF MapGet(t.items, k) # None THEN is_table(MapGet(t.items, k)[1].value)
    ELSE FALSE

contains_value(t, k) ==
    IF MapGet(t.items, k) # None THEN is_value(MapGet(t.items, k)[1].value)
    ELSE FALSE

contains_array_of_tables(t, k) ==
    IF MapGet(t.items, k) # None
    THEN is_array_of_tables(MapGet(t.items, k)[1].value)
    ELSE FALSE

iter(t) == [i \in 1..Len(t.items) |-> <<t.items[i].k, t.items[i].kv.value>>]

get(t, k) ==
    IF MapGet(t.items, k) = None THEN None
    ELSE Some(MapGet(t.items, k)[1].value)

\* self.items.iter().filter(|i| !(i.1).value.is_none()).count()
RECURSIVE CountNotNone(_)
CountNotNone(s) ==
    IF s = <<>> THEN 0
    ELSE (IF ~is_none(Head(s).kv.value) THEN 1 ELSE 0) + CountNotNone(Tail(s))

\* self.items.iter().filter(|i| (i.1).value.is_value()).count()
RECURSIVE CountValue(_)
CountValue(s) ==
    IF s = <<>> THEN 0
    ELSE (IF is_value(Head(s).kv.value) THEN 1 ELSE 0) + CountValue(Tail(s))

\* variant counting every slot (self.items.len())
len_all_slots(t) == Len(t.items)

len(t) == CountNotNone(t.items)
values_len(t) == CountValue(t.items)
is_empty(t) == len(t) = 0

\* variant that reports a removed absent Item as None
remove_filter_none(t, k) ==
    [ table |-> [t EXCEPT !.items = MapRemove(t.items, k)],
      ret   |-> IF MapGet(t.items, k) = None
                   \/ is_none(MapGet(t.items, k)[1].value) THEN None
                ELSE Some(MapGet(t.items, k)[1].value) ]

\* Table::remove: the table afterwards and the returned Option<Item>
remove(t, k) ==
    [ table |-> [t EXCEPT !.items = MapRemove(t.items, k)],
      ret   |-> IF MapGet(t.items, k) = None THEN None
                ELSE Some(MapGet(t.items, k)[1].value) ]

\* value::sort_key_value_pairs: stable insertion sort of the entries by key
RECURSIVE InsertSorted(_, _)
InsertSorted(sorted, e) ==
    IF sorted = <<>> THEN <<e>>
    ELSE IF StrLess(e.k, Head(sorted).k) THEN <<e>> \o sorted
    ELSE <<Head(sorted)>> \o InsertSorted(Tail(sorted), e)

RECURSIVE SortFrom(_, _)
SortFrom(sorted, rest) ==
    IF rest = <<>> THEN sorted
    ELSE SortFrom(InsertSorted(sorted, Head(rest)), Tail(rest))

\* variant that sorts the Value entries only and relinks them at the back
sort_value_entries_only(items) ==
    SelectSeq(items, LAMBDA e : ~is_value(e.kv.value))
        \o SortFrom(<<>>, SelectSeq(items, LAMBDA e : is_value(e.kv.value)))

sort_key_value_pairs(items) == SortFrom(<<>>, items)

sort_values(t) == [t EXCEPT !.items = sort_key_value_pairs(t.items)]

set_implicit(t, implicit) == [t EXCEPT !.implicit = implicit]

\* variant that falls back to the string as written when it is no key token
entry_coerce(t, key) ==
    LET parsed_key == IF ParseKey(key) = None
                      THEN Some([raw |-> key, key |-> key]) ELSE ParseKey(key)
    IN  [ ok    |-> ParseKey(key) # None,
          table |-> [t EXCEPT !.items =
                       MapEntryOrInsert(t.items, parsed_key[1].key,
                           TableKeyValue(key_repr(parsed_key[1].raw),
                                         ItemNone))],
          slot  |-> parsed_key[1].key ]

\* Table::entry: ok = FALSE is the panic of expect("invalid key"); otherwise
\* the table afterwards and the map key of the slot the handle refers to
entry(t, key) ==
    LET parsed_key == ParseKey(key)
    IN  IF parsed_key = None
        THEN [ok |-> FALSE, table |-> t, slot |-> <<>>]
        ELSE [ ok    |-> TRUE,
               table |-> [t EXCEPT !.items =
                            MapEntryOrInsert(t.items, parsed_key[1].key,
                                TableKeyValue(key_repr(parsed_key[1].raw),
                                              ItemNone))],
               slot  |-> parsed_key[1].key ]

\* t with the Item of the slot under map key k replaced: the effect of a
\* write through the &mut Item that entry returned
PutItem(t, k, item) ==
    [t EXCEPT !.items[IndexOf(t.items, k)].kv.value = item]

\* ------------------------------------------------------------- inputs
\* a table the caller built: b = <integer>, a = <str>, in that order
SampleTable ==
    LET t1 == PutItem(entry(table.table, <<"b">>).table, <<"b">>,
                      value("integer"))
    IN  PutItem(entry(t1, <<"a">>).table, <<"a">>, value("str"))

\* the Items callers write through a handle or pass to or_insert: absent,
\* a scalar, a nested table and an array of tables holding one table
Items ==
    { ItemNone, value("integer"), value("array"), ItemTable(SampleTable),
      ItemArrayOfTables(Append(array.tables, SampleTable)) }

\* ------------------------------------------------------------- state
\* root   : the Table
\* handle : the live &mut Item returned by entry (map key of its slot and
\*          the string entry was called with), None when there is none
\* last   : the last call, its arguments and what it returned
\* status : "panicked" once entry hit expect("invalid key")
Last(op, key, arg, ret, res) ==
    [op |-> op, key |-> key, arg |-> arg, ret |-> ret, res |-> res]

Init ==
    /\ root = TableNew
    /\ handle = None
    /\ last = Last("new", None, None, None, "ok")
    /\ status = "ok"

\* let h = root.entry(k)
Entry(k) ==
    /\ status = "ok"
    /\ LET r == entry(root, k)
           created == Len(r.table.items) > Len(root.items)
       IN  IF ~r.ok
           THEN /\ status' = "panicked"
                /\ root' = r.table
                /\ handle' = None
                /\ last' = Last("entry", Some(k), None, None, "panic")
           ELSE /\ created => Len(root.items) < MaxSlots
                /\ root' = r.table
                /\ handle' = Some([slot |-> r.slot, raw |-> k])
                /\ last' = Last("entry", Some(k), None, None,
                                IF created THEN "created" ELSE "found")
                /\ UNCHANGED status

\* *h = v
Assign(v) ==
    /\ status = "ok"
    /\ handle # None
    /\ root' = PutItem(root, handle[1].slot, v)
    /\ last' = Last("assign", Some(handle[1].raw), Some(v), None, "ok")
    /\ UNCHANGED <<handle, status>>

\* h.or_insert(x): ret is the Item the returned handle refers to
OrInsert(x) ==
    /\ status = "ok"
    /\ handle # None
    /\ LET new == or_insert(MapGet(root.items, handle[1].slot)[1].value, x)
       IN  /\ root' = PutItem(root, handle[1].slot, new)
           /\ last' = Last("or_insert", Some(handle[1].raw), Some(x),
                           Some(new), "ok")
    /\ UNCHANGED <<handle, status>>

\* root.remove(k)
Remove(k) ==
    /\ status = "ok"
    /\ LET r == remove(root, k)
       IN  /\ root' = r.table
           /\ last' = Last("remove", Some(k), None, r.ret, "ok")
    /\ handle' = None
    /\ UNCHANGED status

\* root.sort_values()
SortValues ==
    /\ status = "ok"
    /\ root' = sort_values(root)
    /\ last' = Last("sort_values", None, None, None,
                    IF root' = root THEN "same" ELSE "reordered")
    /\ handle' = None
    /\ UNCHANGED status

\* root.set_implicit(b)
SetImplicit(b) ==
    /\ status = "ok"
    /\ root' = set_implicit(root, b)
    /\ last' = Last("set_implicit", None, None, None, "ok")
    /\ handle' = None
    /\ UNCHANGED status

Next ==
    \/ \E k \in KeyStrings : Entry(k)
    \/ \E v \in Items : Assign(v)
    \/ \E x \in Items : OrInsert(x)
    \/ \E k \in KeyStrings : Remove(k)
    \/ SortValues
    \/ \E b \in BOOLEAN : SetImplicit(b)

Spec == Init /\ [][Next]_vars

\* ------------------------------------------------ Item downcasting runs
\* the Items the downcasts are applied to
DowncastInputs ==
    Items \cup {table, array} \cup {value(kind) : kind \in ValueKinds}

Downcasts ==
    { "as_value", "as_table", "as_array_of_tables", "as_integer", "as_float",
      "as_bool", "as_str", "as_date_time", "as_array", "as_inline_table" }

ApplyDowncast(name, it) ==
    CASE name = "as_value" -> as_value(it)
      [] name = "as_table" -> as_table(it)
      [] name = "as_array_of_tables" -> as_array_of_tables(it)
      [] name = "as_integer" -> as_integer(it)
      [] name = "as_float" -> as_float(it)
      [] name = "as_bool" -> as_bool(it)
      [] name = "as_str" -> as_str(it)
      [] name = "as_date_time" -> as_date_time(it)
      [] name = "as_array" -> as_array(it)
      [] name = "as_inline_table" -> as_inline_table(it)

InitItem ==
    /\ root = TableNew
    /\ handle = None
    /\ status = "ok"
    /\ \E it \in DowncastInputs : last = Last("item", None, Some(it), None, "ok")

\* item.<name>(): arg is the Item, ret the Option the downcast returned
Downcast(name) ==
    /\ last' = Last(name, None, last.arg, ApplyDowncast(name, last.arg[1]),
                    "ok")
    /\ UNCHANGED <<root, handle, status>>

NextItem == \E name \in Downcasts : Downcast(name)

SpecItem == InitItem /\ [][NextItem]_vars

\* ------------------------------------------------------------- claims
Keys(t) == {t.items[i].k : i \in 1..Len(t.items)}
SlotItem(t, k) == t.items[IndexOf(t.items, k)].kv.value

\* C1: immediately after entry(k) created a slot (no write through the
\* handle yet), contains_key(k) is false and get(k) is Some(Item::None),
\* for the same string k that was passed to entry.
C1_ProbeThenGet ==
    (last.op = "entry" /\ last.res = "created")
        => /\ ~contains_key(root, last.key[1])
           /\ get(root, last.key[1]) = Some(ItemNone)

NoneOfFour(t, k) ==
    /\ ~contains_key(t, k)
    /\ ~contains_value(t, k)
    /\ ~contains_table(t, k)
    /\ ~contains_array_of_tables(t, k)

\* C2: after a non-absent Item v was assigned through the handle of
\* entry(k), contains_key(k) holds and exactly the contains_* predicate of
\* v's variant holds; for a key with no slot or an absent slot all four
\* predicates are false.
C2_AssignThenContains ==
    /\ (last.op = "assign" /\ ~is_none(last.arg[1]))
        => /\ contains_key(root, last.key[1])
           /\ contains_value(root, last.key[1]) = (last.arg[1].tag = "Value")
           /\ contains_table(root, last.key[1]) = (last.arg[1].tag = "Table")
           /\ contains_array_of_tables(root, last.key[1])
                = (last.arg[1].tag = "ArrayOfTables")
    /\ \A k \in KeyStrings :
          (get(root, k) = None \/ get(root, k) = Some(ItemNone))
              => NoneOfFour(root, k)

\* C3: remove(k) on a key that has a slot returns Some(the Item the slot
\* held), absent Items included; afterwards get(k) is None and the other
\* slots, their Items and their order are as before.  On a key with no slot
\* it returns None and the table (slots, order, decor, implicit) is unchanged.
C3_Remove ==
    [][ last'.op = "remove" =>
          LET k == last'.key[1]
          IN  /\ root'.decor = root.decor
              /\ root'.implicit = root.implicit
              /\ IF k \in Keys(root)
                 THEN /\ last'.ret = Some(SlotItem(root, k))
                      /\ get(root', k) = None
                      /\ Len(root'.items) = Len(root.items) - 1
                      /\ \A i \in 1..Len(root.items) :
                            LET j == IF i < IndexOf(root.items, k)
                                     THEN i ELSE i - 1
                            IN  root.items[i].k # k
                                   => root'.items[j] = root.items[i]
                 ELSE /\ last'.ret = None
                      /\ root' = root ]_vars

\* an absent Item left by a bare probe was removed from between two others
C3_Witness ==
    /\ last.op = "remove"
    /\ last.ret = Some(ItemNone)
    /\ Len(root.items) = 2

Ascending(t) ==
    \A i, j \in 1..Len(t.items) : i < j => StrLess(t.items[i].k, t.items[j].k)

IterSet(t) == {iter(t)[i] : i \in 1..Len(iter(t))}

C5_InsertionOrder ==
    [][ last'.op \in {"entry", "assign", "or_insert", "remove"} =>
          /\ \A i, j \in 1..Len(iter(root')) :
                iter(root')[i][1] = iter(root')[j][1] => i = j
          /\ \A i, j \in 1..Len(root.items) :
                (i < j /\ root.items[i].k \in Keys(root')
                       /\ root.items[j].k \in Keys(root'))
                   => IndexOf(root'.items, root.items[i].k)
                        < IndexOf(root'.items, root.items[j].k)
          /\ \A k \in Keys(root') \ Keys(root) :
                /\ last'.op = "entry"
                /\ iter(root')[Len(iter(root'))] = <<k, ItemNone>>
                /\ Len(iter(root')) = Len(iter(root)) + 1
          /\ last'.op # "remove" => Keys(root) \subseteq Keys(root')
          /\ last'.op = "remove" => Keys(root) \ Keys(root') \subseteq {last'.key[1]}
      ]_vars

\* the first of three slots was probed again and stays first
C5_Witness ==
    /\ last.op = "entry"
    /\ last.res = "found"
    /\ Len(root.items) = 3
    /\ handle # None
    /\ handle[1].slot = root.items[1].k

\* C6: a second entry(k) right after entry(k) addresses the same slot,
\* adds no slot, leaves the stored Item and len() as they were; no bare
\* entry probe changes len().
C6_EntryIdempotent ==
    [][ /\ (last'.op = "entry" /\ last'.res # "panic") => len(root') = len(root)
        /\ (last.op = "entry" /\ last.res # "panic" /\ last'.op = "entry"
              /\ last'.key = last.key)
            => /\ last'.res = "found"
               /\ handle'[1].slot = handle[1].slot
               /\ iter(root') = iter(root)
               /\ Cardinality(Keys(root')) = Len(root'.items)
      ]_vars

\* entry was called again on a slot a first entry had just created
C6_Witness ==
    /\ last.op = "entry"
    /\ last.res = "found"
    /\ handle # None
    /\ is_none(SlotItem(root, handle[1].slot))
    /\ len(root) < Len(root.items)

SlotsWith(t, tags) ==
    {i \in 1..Len(t.items) : t.items[i].kv.value.tag \in tags}

\* C7: len() is the number of slots whose Item is not absent, values_len()
\* the number whose Item is a Value, is_empty() iff len() = 0; so
\* values_len() <= len() <= number of slots of iter(); a table of one bare
\* probe, one scalar and one nested table has len() 2 and values_len() 1.
C7_LenAccounting ==
    /\ len(root) = Cardinality(SlotsWith(root, {"Value", "Table", "ArrayOfTables"}))
    /\ values_len(root) = Cardinality(SlotsWith(root, {"Value"}))
    /\ is_empty(root) <=> SlotsWith(root, {"Value", "Table", "ArrayOfTables"}) = {}
    /\ values_len(root) <= len(root)
    /\ len(root) <= Len(iter(root))
    /\ ( /\ Len(root.items) = 3
         /\ Cardinality(SlotsWith(root, {"None"})) = 1
         /\ Cardinality(SlotsWith(root, {"Value"})) = 1
         /\ Cardinality(SlotsWith(root, {"Table"})) = 1 )
       => (len(root) = 2 /\ values_len(root) = 1)

\* one bare probe, one scalar, one nested table
C7_Witness ==
    /\ Len(root.items) = 3
    /\ Cardinality(SlotsWith(root, {"None"})) = 1
    /\ Cardinality(SlotsWith(root, {"Value"})) = 1
    /\ Cardinality(SlotsWith(root, {"Table"})) = 1

\* C8: or_insert(x) on an absent Item makes it x, on a non-absent Item y
\* leaves y and drops x; the returned handle refers to the Item now stored.
\* Hence a later or_insert on the same handle keeps the first non-absent one.
C8_OrInsertFirstWins ==
    [][ last'.op = "or_insert" =>
          LET old == SlotItem(root, handle[1].slot)
              new == SlotItem(root', handle[1].slot)
              x   == last'.arg[1]
          IN  /\ is_none(old) => new = x
              /\ ~is_none(old) => new = old
              /\ last'.ret = Some(new)
              /\ (last.op = "or_insert" /\ ~is_none(last.ret[1]))
                    => last'.ret = last.ret
              /\ \A k \in Keys(root) \ {handle[1].slot} :
                    MapGet(root'.items, k) = MapGet(root.items, k)
              /\ Keys(root') = Keys(root) ]_vars

\* or_insert of a different non-absent Item left the stored one in place
C8_Witness ==
    /\ last.op = "or_insert"
    /\ ~is_none(last.arg[1])
    /\ ~is_none(last.ret[1])
    /\ last.ret[1] # last.arg[1]

\* C9: entry(k) with a string that is no key token fails at once and adds
\* no slot (slots, order and Items as before the call); no other operation
\* fails, whatever the key string.
C9_InvalidKey ==
    [][ /\ (last'.op = "entry" /\ ParseKey(last'.key[1]) = None)
            => /\ last'.res = "panic"
               /\ status' = "panicked"
               /\ handle' = None
               /\ root' = root
        /\ (last'.op = "entry" /\ ParseKey(last'.key[1]) # None)
            => (last'.res # "panic" /\ status' = "ok")
        /\ last'.op \in {"assign", "or_insert", "remove", "sort_values",
                         "set_implicit"} => status' = "ok"
        /\ \A k \in KeyStrings :
              /\ get(root', k) = None \/ Len(get(root', k)) = 1
              /\ contains_key(root', k) \in BOOLEAN
              /\ NoneOfFour(root', k) \in BOOLEAN
      ]_vars

\* entry on a non-empty table was given a string that is no key token
C9_Witness ==
    /\ status = "panicked"
    /\ last.op = "entry"
    /\ ParseKey(last.key[1]) = None
    /\ Len(root.items) >= 2

StructuralCount(it) ==
    Cardinality({p \in {"none", "value", "table", "array_of_tables"} :
        CASE p = "none" -> is_none(it)
          [] p = "value" -> is_value(it)
          [] p = "table" -> is_table(it)
          [] p = "array_of_tables" -> is_array_of_tables(it)})

ScalarKind(name) ==
    CASE name = "as_integer" -> "integer"
      [] name = "as_float" -> "float"
      [] name = "as_bool" -> "bool"
      [] name = "as_str" -> "str"
      [] name = "as_date_time" -> "date_time"
      [] name = "as_array" -> "array"
      [] name = "as_inline_table" -> "inline_table"

ScalarDowncasts == Downcasts \ {"as_value", "as_table", "as_array_of_tables"}

\* C10: exactly one of is_none, is_value, is_table, is_array_of_tables holds
\* of an Item, and a scalar downcast (as_integer .. as_inline_table)
\* succeeds only on a Value of the requested kind: on None, Table and
\* ArrayOfTables every scalar predicate is false.
C10_Downcasts ==
    LET it == last.arg[1]
    IN  /\ StructuralCount(it) = 1
        /\ last.op \in ScalarDowncasts =>
              (last.ret # None =>
                  (it.tag = "Value" /\ it.value.kind = ScalarKind(last.op)))
        /\ it.tag # "Value" =>
              /\ ~is_integer(it) /\ ~is_float(it) /\ ~is_bool(it)
              /\ ~is_str(it) /\ ~is_date_time(it)
              /\ ~is_array(it) /\ ~is_inline_table(it)

\* as_array was applied to a non-empty array of tables and returned None
C10_Witness ==
    /\ last.op = "as_array"
    /\ last.arg[1].tag = "ArrayOfTables"
    /\ last.arg[1].tables # <<>>
    /\ last.ret = None

====
